---- MODULE Spec2Model ----
(***************************************************************************)
(* A model of src/arbitrage.py: the funding-rate arbitrage checker for     *)
(* Hyperliquid and Lighter.                                                *)
(*                                                                         *)
(* The file defines fetch_hyperliquid and fetch_lighter twice.  Python     *)
(* binds a name to its last definition, so main calls the definitions of   *)
(* lines 179-228; those are the ones modelled here.  MarketSnapshot is the *)
(* dataclass of lines 64-72 (fields funding_rate and mid_price).           *)
(*                                                                         *)
(* Numbers are fixed point: a funding rate is an integer number of 1e-7,   *)
(* so the threshold 1e-6 of line 266 is 10 units.  A quotient is kept as   *)
(* an exact fraction [num, den].  Binary floating-point rounding is not    *)
(* modelled.                                                               *)
(***************************************************************************)
EXTENDS Integers, Sequences, FiniteSets, TLC

VARIABLES
    pc,            \* position of the run: the next step of main to execute
    market,        \* main's local `market` (sys.argv[1] or the default)
    position_usd,  \* main's local `position_usd`
    funding_resp,  \* per adapter, its local `funding_resp`
    book_resp,     \* per adapter, its local `book_resp`
    call,          \* per adapter: "idle", "running", "returned" or "raised"
    result,        \* per adapter, the value it returned: None or a snapshot
    diag,          \* per adapter, the stderr lines written during its call
    returns,       \* per adapter, how many of its transport calls have returned
    requests,      \* every request handed to urlopen, in order
    stderr,        \* the diagnostic stream
    stdout,        \* the report stream
    estimate_calls,\* number of invocations of estimate_arbitrage
    exit_code      \* None while running, then the process exit status

vars == <<pc, market, position_usd, funding_resp, book_resp, call, result,
          diag, returns, requests, stderr, stdout, estimate_calls, exit_code>>

-----------------------------------------------------------------------------
(* Python values.                                                          *)

\* Optional[T]: None is the empty sequence, a value v is <<v>>.
None == <<>>
Some(v) == <<v>>
IsNone(o) == Len(o) = 0

\* A decoded JSON value is a pair <<tag, content>>.  JSON null decodes to
\* Python's None, which is also what http_post/http_get return on failure.
JNull == <<"null", 0>>
JNum(n) == <<"num", n>>
JStr(cs) == <<"str", cs>>
JList(items) == <<"list", items>>
JDict(pairs) == <<"dict", pairs>>

Tag(v) == v[1]

\* bool(v), as used by `not v`.
Truthy(v) ==
    CASE Tag(v) = "null" -> FALSE
      [] Tag(v) = "num" -> v[2] # 0
      [] OTHER -> Len(v[2]) > 0

\* The outcome of evaluating an expression: a value, or the exception raised.
Ok(v) == [exc |-> "none", val |-> v]
Raise(e) == [exc |-> e, val |-> JNull]

\* v[k] for a string key k.
GetKey(v, k) ==
    IF Tag(v) = "dict"
    THEN LET hit == {i \in 1..Len(v[2]) : v[2][i][1] = k}
         IN  IF hit = {} THEN Raise("KeyError")
             ELSE Ok(v[2][CHOOSE i \in hit : TRUE][2])
    ELSE Raise("TypeError")

\* v[i] for an integer index i >= 0.
GetIdx(v, i) ==
    CASE Tag(v) = "dict" -> Raise("KeyError")
      [] Tag(v) = "list" ->
            IF i < Len(v[2]) THEN Ok(v[2][i + 1]) ELSE Raise("IndexError")
      [] Tag(v) = "str" ->
            IF i < Len(v[2]) THEN Ok(JStr(<<v[2][i + 1]>>)) ELSE Raise("IndexError")
      [] OTHER -> Raise("TypeError")

DigitChars == {"0", "1", "2", "3", "4", "5", "6", "7", "8", "9"}

DigitValue(c) ==
    CASE c = "0" -> 0 [] c = "1" -> 1 [] c = "2" -> 2 [] c = "3" -> 3
      [] c = "4" -> 4 [] c = "5" -> 5 [] c = "6" -> 6 [] c = "7" -> 7
      [] c = "8" -> 8 [] c = "9" -> 9

RECURSIVE DigitsValue(_)
DigitsValue(cs) ==
    IF cs = <<>> THEN 0
    ELSE 10 * DigitsValue(SubSeq(cs, 1, Len(cs) - 1)) + DigitValue(cs[Len(cs)])

\* float(s) for a string s of characters: a non-empty string of digits parses
\* to the number it denotes, anything else raises ValueError.
ParseFloat(cs) ==
    IF cs # <<>> /\ \A i \in 1..Len(cs) : cs[i] \in DigitChars
    THEN Ok(DigitsValue(cs))
    ELSE Raise("ValueError")

\* float(v).
Float(v) ==
    CASE Tag(v) = "num" -> Ok(v[2])
      [] Tag(v) = "str" -> ParseFloat(v[2])
      [] OTHER -> Raise("TypeError")

\* The same three operations on the outcome of a sub-expression: an exception
\* raised by the sub-expression propagates.
GetKeyR(r, k) == IF r.exc = "none" THEN GetKey(r.val, k) ELSE r
GetIdxR(r, i) == IF r.exc = "none" THEN GetIdx(r.val, i) ELSE r
FloatR(r) == IF r.exc = "none" THEN Float(r.val) ELSE r

\* The exception of the first statement, in program order, that raises.
FirstExc(rs) ==
    LET bad == {i \in 1..Len(rs) : rs[i].exc # "none"}
    IN  IF bad = {} THEN "none"
        ELSE rs[CHOOSE i \in bad : \A j \in bad : i <= j].exc

-----------------------------------------------------------------------------
(* Constants of the program.                                               *)

HYPERLIQUID_API == "https://api.hyperliquid.xyz/info"
\* LIGHTER_API is assigned twice; the second assignment is the one in effect.
LIGHTER_API == "https://api.lighter.xyz/v1/public"
DEFAULT_MARKET == "ETH"
DEFAULT_POSITION_USD == 1000
\* 1e-6 in units of 1e-7.
NoOpportunityThreshold == 10

-----------------------------------------------------------------------------
(* The transport: http_post and http_get.                                  *)

\* What one urlopen/read/decode/json.loads attempt can do: deliver a decoded
\* body ("ok"), raise one of the exceptions the except clause names ("fail":
\* URLError, TimeoutError, JSONDecodeError), or raise another exception
\* ("escape": for instance UnicodeDecodeError from .decode()).
OkOutcome(body) == [kind |-> "ok", body |-> body]
FailOutcome == [kind |-> "fail", body |-> JNull]
EscapeOutcome == [kind |-> "escape", body |-> JNull]

Request(method, url, type, symbol) ==
    [method |-> method, url |-> url, type |-> type, symbol |-> symbol]

\* A transport that tries again after a failed attempt.
http_post_retry(req, outcome) ==
    [ret    |-> IF outcome.kind = "ok" THEN outcome.body ELSE JNull,
     exc    |-> IF outcome.kind = "escape" THEN "UnicodeDecodeError" ELSE "none",
     stderr |-> IF outcome.kind = "fail" THEN <<"Request failed">> ELSE <<>>,
     sent   |-> IF outcome.kind = "fail" THEN <<req, req>> ELSE <<req>>]

\* One call of http_post: the value returned, the exception that leaves it,
\* the diagnostics printed and the requests handed to urlopen.
http_post(req, outcome) ==
    [ret    |-> IF outcome.kind = "ok" THEN outcome.body ELSE JNull,
     exc    |-> IF outcome.kind = "escape" THEN "UnicodeDecodeError" ELSE "none",
     stderr |-> IF outcome.kind = "fail" THEN <<"Request failed">> ELSE <<>>,
     sent   |-> <<req>>]

\* One call of http_get.
http_get(req, outcome) ==
    [ret    |-> IF outcome.kind = "ok" THEN outcome.body ELSE JNull,
     exc    |-> IF outcome.kind = "escape" THEN "UnicodeDecodeError" ELSE "none",
     stderr |-> IF outcome.kind = "fail" THEN <<"Request failed">> ELSE <<>>,
     sent   |-> <<req>>]

-----------------------------------------------------------------------------
(* MarketSnapshot.                                                         *)

MarketSnapshotFields == {"funding_rate", "mid_price"}

\* The __init__ the dataclass decorator generates: it takes exactly the
\* declared fields as keyword arguments; any other keyword, or a missing
\* field, is a TypeError.
MarketSnapshot(kwargs) ==
    IF DOMAIN kwargs = MarketSnapshotFields
    THEN Ok([funding_rate |-> kwargs.funding_rate, mid_price |-> kwargs.mid_price])
    ELSE Raise("TypeError")

\* The property MarketSnapshot.mid.
Mid(snapshot) == snapshot.mid_price

-----------------------------------------------------------------------------
(* The venue adapters in effect.                                           *)

Venues == {"hyperliquid", "lighter"}

\* The outcome of an adapter call: it returns None, returns a snapshot, or an
\* exception leaves it.
Returned(value, lines) == [status |-> "returned", value |-> value, exc |-> "none", stderr |-> lines]
Raised(e) == [status |-> "raised", value |-> None, exc |-> e, stderr |-> <<>>]

\* The exceptions the adapters' except clauses name.
AdapterCaught == {"KeyError", "ValueError", "IndexError"}

\* fetch_hyperliquid from the check of the two responses on.
fetch_hyperliquid_parse(f_resp, b_resp) ==
    IF ~Truthy(f_resp) \/ ~Truthy(b_resp) THEN Returned(None, <<>>)
    ELSE
      LET funding_rate == FloatR(GetKeyR(GetKey(f_resp, "funding"), "fundingRate"))
          bids == GetKeyR(GetKey(b_resp, "levels"), "bids")
          asks == GetKeyR(GetKey(b_resp, "levels"), "asks")
          best_bid == FloatR(GetIdxR(GetIdxR(bids, 0), 0))
          best_ask == FloatR(GetIdxR(GetIdxR(asks, 0), 0))
          e == FirstExc(<<funding_rate, bids, asks, best_bid, best_ask>>)
      IN  IF e \in AdapterCaught
          THEN Returned(None, <<"Unexpected Hyperliquid payload">>)
          ELSE IF e # "none" THEN Raised(e)
          ELSE LET made == MarketSnapshot([funding_rate |-> funding_rate.val,
                                           best_bid |-> best_bid.val,
                                           best_ask |-> best_ask.val])
               IN  IF made.exc = "none" THEN Returned(Some(made.val), <<>>)
                   ELSE Raised(made.exc)

\* fetch_lighter from the check of the two responses on.
fetch_lighter_parse(f_resp, b_resp) ==
    IF ~Truthy(f_resp) \/ ~Truthy(b_resp) THEN Returned(None, <<>>)
    ELSE
      LET funding_rate == FloatR(GetKey(f_resp, "fundingRate"))
          best_bid == FloatR(GetIdxR(GetIdxR(GetKey(b_resp, "bids"), 0), 0))
          best_ask == FloatR(GetIdxR(GetIdxR(GetKey(b_resp, "asks"), 0), 0))
          e == FirstExc(<<funding_rate, best_bid, best_ask>>)
      IN  IF e \in AdapterCaught
          THEN Returned(None, <<"Unexpected Lighter payload">>)
          ELSE IF e # "none" THEN Raised(e)
          ELSE LET made == MarketSnapshot([funding_rate |-> funding_rate.val,
                                           best_bid |-> best_bid.val,
                                           best_ask |-> best_ask.val])
               IN  IF made.exc = "none" THEN Returned(Some(made.val), <<>>)
                   ELSE Raised(made.exc)

-----------------------------------------------------------------------------
(* The inputs of a run: the command line and what the venues answer.       *)

\* sys.argv[1:]: no argument, a market, or a market and a position size.
MarketArgs == {"ETH", "eth", "BTC"}
PositionArgs == {<<"5", "0", "0">>, <<"0">>, <<"x">>}
Argvs ==
    {<<>>} \cup {<<m>> : m \in MarketArgs}
           \cup {<<m, p>> : m \in MarketArgs, p \in PositionArgs}

Level(px) == JList(<<JStr(px), JStr(<<"1">>)>>)
GoodBids == JList(<<Level(<<"1", "9", "9", "8">>)>>)
GoodAsks == JList(<<Level(<<"2", "0", "0", "2">>)>>)

\* Bodies the Hyperliquid `funding` request can be answered with.
HyperFundingBodies ==
    { JDict(<< <<"funding", JDict(<< <<"fundingRate", JStr(<<"2", "0">>)>> >>)>> >>),
      JDict(<< <<"funding", JDict(<< <<"fundingRate", JNum(20)>> >>)>> >>),
      JDict(<< <<"funding", JDict(<< <<"fundingRate", JStr(<<"x">>)>> >>)>> >>),
      JDict(<< <<"funding", JDict(<< <<"fundingRate", JNull>> >>)>> >>),
      JDict(<< <<"funding", JDict(<< <<"rate", JNum(20)>> >>)>> >>),
      JDict(<< <<"funding", JNull>> >>),
      JDict(<< <<"error", JStr(<<"x">>)>> >>),
      JDict(<<>>),
      JList(<<JNum(20)>>),
      JNull }

\* Bodies the Hyperliquid `l2Book` request can be answered with.
HyperBookBodies ==
    { JDict(<< <<"levels", JDict(<< <<"bids", GoodBids>>, <<"asks", GoodAsks>> >>)>> >>),
      JDict(<< <<"levels", JDict(<< <<"bids", JList(<<>>)>>, <<"asks", JList(<<>>)>> >>)>> >>),
      JDict(<< <<"levels", JDict(<< <<"bids", GoodBids>>, <<"asks", JList(<<>>)>> >>)>> >>),
      JDict(<< <<"levels", JDict(<< <<"bids", GoodBids>>, <<"asks", JNull>> >>)>> >>),
      JDict(<< <<"levels", JDict(<< <<"asks", GoodAsks>> >>)>> >>),
      JDict(<< <<"levels", JList(<<GoodBids, GoodAsks>>)>> >>),
      JDict(<< <<"error", JStr(<<"x">>)>> >>),
      JDict(<<>>) }

\* Bodies the Lighter `funding-rate` request can be answered with.
LighterFundingBodies ==
    { JDict(<< <<"fundingRate", JStr(<<"5">>)>> >>),
      JDict(<< <<"fundingRate", JStr(<<"x">>)>> >>),
      JDict(<< <<"fundingRate", JNull>> >>),
      JDict(<< <<"error", JStr(<<"x">>)>> >>),
      JDict(<<>>),
      JList(<<JNum(5)>>) }

\* Bodies the Lighter `orderbook` request can be answered with.
LighterBookBodies ==
    { JDict(<< <<"bids", GoodBids>>, <<"asks", GoodAsks>> >>),
      JDict(<< <<"bids", JList(<<>>)>>, <<"asks", GoodAsks>> >>),
      JDict(<< <<"bids", GoodBids>>, <<"asks", JNull>> >>),
      JDict(<< <<"asks", GoodAsks>> >>),
      JDict(<<>>) }

Outcomes(bodies) == {OkOutcome(b) : b \in bodies} \cup {FailOutcome, EscapeOutcome}

-----------------------------------------------------------------------------
(* estimate_arbitrage.                                                     *)

\* One line of the report: its label and the value printed after it, a
\* fraction num/den or a word.
ReportLine(label, text, num, den) ==
    [label |-> label, text |-> text, num |-> num, den |-> den]

Abs(n) == IF n < 0 THEN -n ELSE n

RECURSIVE Sum(_)
Sum(ns) == IF ns = <<>> THEN 0 ELSE ns[1] + Sum(Tail(ns))

\* The call estimate_arbitrage(hyper, lighter, position_usd): the exception
\* that leaves it ("none" when it returns) and the lines it printed.
estimate_arbitrage(hyper, lighter, position) ==
    IF IsNone(hyper) \/ IsNone(lighter)
    THEN [exc |-> "AttributeError", stdout |-> <<>>]
    ELSE
      LET h == hyper[1]
          l == lighter[1]
          funding_diff == h.funding_rate - l.funding_rate
          funding_diff_pct == funding_diff * 100
          mid_values == Mid(h) \o Mid(l)
          \* line 246: the mean of the prices present; line 248 assigns avg_mid again
          avg_mid_present == IF mid_values # <<>>
                             THEN Some([num |-> Sum(mid_values), den |-> Len(mid_values)])
                             ELSE None
          \* line 248: None + float, float + None and None + None are TypeErrors
          sum_raises == IsNone(Mid(h)) \/ IsNone(Mid(l))
          avg_mid == Some([num |-> Mid(h)[1] + Mid(l)[1], den |-> 2])
          profit_estimate == position * funding_diff
          direction == IF funding_diff > 0 THEN "Short Hyperliquid / Long Lighter"
                       ELSE "Long Hyperliquid / Short Lighter"
          head == << ReportLine("Hyperliquid funding", "", h.funding_rate, 1),
                     ReportLine("Lighter funding", "", l.funding_rate, 1),
                     ReportLine("Funding rate diff", "", funding_diff, 1),
                     \* lines 257-260
                     IF ~IsNone(avg_mid)
                     THEN ReportLine("Avg mid price", "", avg_mid[1].num, avg_mid[1].den)
                     ELSE ReportLine("Avg mid price", "unavailable", 0, 1),
                     \* line 262
                     ReportLine("Avg mid price", "", avg_mid[1].num, avg_mid[1].den),
                     ReportLine("Position size (USD)", "", position, 1) >>
      IN  IF sum_raises THEN [exc |-> "TypeError", stdout |-> <<>>]
          ELSE IF Abs(funding_diff) < NoOpportunityThreshold
          THEN [exc |-> "none",
                stdout |-> Append(head, ReportLine("No arbitrage opportunity", "", 0, 1))]
          ELSE [exc |-> "none",
                stdout |-> Append(head, ReportLine("Arbitrage", direction, profit_estimate, 1))]

-----------------------------------------------------------------------------
(* A run of main.                                                          *)

Init ==
    /\ pc = "main"
    /\ market = DEFAULT_MARKET
    /\ position_usd = DEFAULT_POSITION_USD
    /\ funding_resp = [v \in Venues |-> JNull]
    /\ book_resp = [v \in Venues |-> JNull]
    /\ call = [v \in Venues |-> "idle"]
    /\ result = [v \in Venues |-> None]
    /\ diag = [v \in Venues |-> <<>>]
    /\ returns = [v \in Venues |-> 0]
    /\ requests = <<>>
    /\ stderr = <<>>
    /\ stdout = <<>>
    /\ estimate_calls = 0
    /\ exit_code = None

\* An exception nobody catches: the interpreter prints the traceback to
\* stderr and the process exits with status 1.
Uncaught(lines) ==
    /\ stderr' = Append(lines, "Traceback")
    /\ exit_code' = Some(1)
    /\ pc' = "done"

\* main, lines 282-295: the command line.
main_args(argv) ==
    /\ pc = "main"
    /\ market' = IF Len(argv) > 0 THEN argv[1] ELSE DEFAULT_MARKET
    /\ IF Len(argv) > 1
       THEN LET parsed == ParseFloat(argv[2])
            IN  IF parsed.exc = "none"
                THEN position_usd' = parsed.val /\ stderr' = stderr
                ELSE /\ position_usd' = DEFAULT_POSITION_USD
                     /\ stderr' = Append(stderr, "Invalid position size")
       ELSE position_usd' = DEFAULT_POSITION_USD /\ stderr' = stderr
    /\ pc' = "fetch_hyperliquid"
    /\ UNCHANGED <<funding_resp, book_resp, call, result, diag, returns, requests,
                   stdout, estimate_calls, exit_code>>

\* One request statement of adapter v: r is what the transport did.  The
\* response is bound to the adapter's local, or the transport's exception
\* leaves the adapter and main.
AdapterRequest(v, r, which, next) ==
    /\ requests' = requests \o r.sent
    /\ diag' = [diag EXCEPT ![v] = @ \o r.stderr]
    /\ IF r.exc # "none"
       THEN /\ call' = [call EXCEPT ![v] = "raised"]
            /\ Uncaught(stderr \o r.stderr)
            /\ UNCHANGED <<funding_resp, book_resp, returns>>
       ELSE /\ call' = [call EXCEPT ![v] = "running"]
            /\ returns' = [returns EXCEPT ![v] = @ + 1]
            /\ stderr' = stderr \o r.stderr
            /\ IF which = "funding"
               THEN /\ funding_resp' = [funding_resp EXCEPT ![v] = r.ret]
                    /\ UNCHANGED book_resp
               ELSE /\ book_resp' = [book_resp EXCEPT ![v] = r.ret]
                    /\ UNCHANGED funding_resp
            /\ pc' = next
            /\ UNCHANGED exit_code
    /\ UNCHANGED <<market, position_usd, result, stdout, estimate_calls>>

\* The end of adapter v's call with outcome o: the value is bound in main, or
\* the exception leaves main.
AdapterReturn(v, o, next) ==
    /\ diag' = [diag EXCEPT ![v] = @ \o o.stderr]
    /\ call' = [call EXCEPT ![v] = o.status]
    /\ IF o.status = "raised"
       THEN Uncaught(stderr) /\ UNCHANGED result
       ELSE /\ result' = [result EXCEPT ![v] = o.value]
            /\ stderr' = stderr \o o.stderr
            /\ pc' = next
            /\ UNCHANGED exit_code
    /\ UNCHANGED <<market, position_usd, funding_resp, book_resp, returns, requests,
                   stdout, estimate_calls>>

\* fetch_hyperliquid, line 187.
fetch_hyperliquid_funding(outcome) ==
    /\ pc = "fetch_hyperliquid"
    /\ AdapterRequest("hyperliquid",
                      http_post(Request("POST", HYPERLIQUID_API, "funding", market), outcome),
                      "funding", "fetch_hyperliquid_book")

\* fetch_hyperliquid, line 188.
fetch_hyperliquid_book(outcome) ==
    /\ pc = "fetch_hyperliquid_book"
    /\ AdapterRequest("hyperliquid",
                      http_post(Request("POST", HYPERLIQUID_API, "l2Book", market), outcome),
                      "book", "fetch_hyperliquid_parse")

\* A main that gives up as soon as venue A has failed.
fetch_hyperliquid_return_short_circuit ==
    /\ pc = "fetch_hyperliquid_parse"
    /\ LET o == fetch_hyperliquid_parse(funding_resp["hyperliquid"], book_resp["hyperliquid"])
       IN  IF o.status = "returned" /\ IsNone(o.value)
           THEN /\ diag' = [diag EXCEPT !["hyperliquid"] = @ \o o.stderr]
                /\ call' = [call EXCEPT !["hyperliquid"] = "returned"]
                /\ stderr' = Append(stderr \o o.stderr, "Could not retrieve market data")
                /\ exit_code' = Some(1)
                /\ pc' = "done"
                /\ UNCHANGED <<market, position_usd, funding_resp, book_resp, result,
                               returns, requests, stdout, estimate_calls>>
           ELSE AdapterReturn("hyperliquid", o, "fetch_lighter")

\* fetch_hyperliquid, lines 190-203, and the assignment of line 297.
fetch_hyperliquid_return ==
    /\ pc = "fetch_hyperliquid_parse"
    /\ AdapterReturn("hyperliquid",
                     fetch_hyperliquid_parse(funding_resp["hyperliquid"], book_resp["hyperliquid"]),
                     "fetch_lighter")

\* fetch_lighter, line 214.
fetch_lighter_funding(outcome) ==
    /\ pc = "fetch_lighter"
    /\ AdapterRequest("lighter",
                      http_get(Request("GET", LIGHTER_API, "funding-rate", market), outcome),
                      "funding", "fetch_lighter_book")

\* fetch_lighter, line 215.
fetch_lighter_book(outcome) ==
    /\ pc = "fetch_lighter_book"
    /\ AdapterRequest("lighter",
                      http_get(Request("GET", LIGHTER_API, "orderbook", market), outcome),
                      "book", "fetch_lighter_parse")

\* fetch_lighter, lines 217-228, and the assignment of line 298.
fetch_lighter_return ==
    /\ pc = "fetch_lighter_parse"
    /\ AdapterReturn("lighter",
                     fetch_lighter_parse(funding_resp["lighter"], book_resp["lighter"]),
                     "main_check")

\* A main without the check of line 300.
main_check_missing ==
    /\ pc = "main_check"
    /\ LET e == estimate_arbitrage(result["hyperliquid"], result["lighter"], position_usd)
       IN  /\ estimate_calls' = estimate_calls + 1
           /\ stdout' = stdout \o e.stdout
           /\ IF e.exc # "none"
              THEN stderr' = Append(stderr, "Traceback") /\ exit_code' = Some(1)
              ELSE stderr' = stderr /\ exit_code' = Some(0)
    /\ pc' = "done"
    /\ UNCHANGED <<market, position_usd, funding_resp, book_resp, call, result, diag,
                   returns, requests>>

\* main, lines 300-304: the check of the two results, then the report.
main_check ==
    /\ pc = "main_check"
    /\ IF IsNone(result["hyperliquid"]) \/ IsNone(result["lighter"])
       THEN /\ stderr' = Append(stderr, "Could not retrieve market data")
            /\ exit_code' = Some(1)
            /\ UNCHANGED <<stdout, estimate_calls>>
       ELSE LET e == estimate_arbitrage(result["hyperliquid"], result["lighter"], position_usd)
            IN  /\ estimate_calls' = estimate_calls + 1
                /\ stdout' = stdout \o e.stdout
                /\ IF e.exc # "none"
                   THEN stderr' = Append(stderr, "Traceback") /\ exit_code' = Some(1)
                   ELSE stderr' = stderr /\ exit_code' = Some(0)
    /\ pc' = "done"
    /\ UNCHANGED <<market, position_usd, funding_resp, book_resp, call, result, diag,
                   returns, requests>>

Next ==
    \/ \E argv \in Argvs : main_args(argv)
    \/ \E o \in Outcomes(HyperFundingBodies) : fetch_hyperliquid_funding(o)
    \/ \E o \in Outcomes(HyperBookBodies) : fetch_hyperliquid_book(o)
    \/ fetch_hyperliquid_return
    \/ \E o \in Outcomes(LighterFundingBodies) : fetch_lighter_funding(o)
    \/ \E o \in Outcomes(LighterBookBodies) : fetch_lighter_book(o)
    \/ fetch_lighter_return
    \/ main_check

Spec == Init /\ [][Next]_vars

-----------------------------------------------------------------------------
(* estimate_arbitrage as a function of its arguments.  The arguments are    *)
(* drawn from MarketSnapshot's declared field types and handed to the call *)
(* of line 304.  (No run of main gets there: see fetch_hyperliquid_parse.) *)

MaxRate == 6
FundingRates == (-MaxRate)..MaxRate
MidPrices == {None, Some(1998), Some(2001)}
Snapshots == [funding_rate : FundingRates, mid_price : MidPrices]
Positions == {0, DEFAULT_POSITION_USD}

InitEstimate ==
    /\ pc = "main_check"
    /\ market = DEFAULT_MARKET
    /\ position_usd \in Positions
    /\ funding_resp = [v \in Venues |-> JNull]
    /\ book_resp = [v \in Venues |-> JNull]
    /\ call = [v \in Venues |-> "returned"]
    /\ result \in [Venues -> {Some(snapshot) : snapshot \in Snapshots}]
    /\ diag = [v \in Venues |-> <<>>]
    /\ returns = [v \in Venues |-> 2]
    /\ requests = <<>>
    /\ stderr = <<>>
    /\ stdout = <<>>
    /\ estimate_calls = 0
    /\ exit_code = None

NextEstimate == main_check

SpecEstimate == InitEstimate /\ [][NextEstimate]_vars

-----------------------------------------------------------------------------
(* Vocabulary of the properties.                                           *)

Has(seq, x) == \E i \in 1..Len(seq) : seq[i] = x

Lines(label) == SelectSeq(stdout, LAMBDA ln : ln.label = label)

\* The adapter's call is over: it returned or an exception left it.
Over(v) == call[v] \in {"returned", "raised"}

\* The adapter returned the failure value.
Failed(v) == call[v] = "returned" /\ IsNone(result[v])

\* The funding-rate field of adapter v's funding response, as the venue's
\* schema places it.
FundingField(v) ==
    IF v = "hyperliquid"
    THEN GetKeyR(GetKey(funding_resp[v], "funding"), "fundingRate")
    ELSE GetKey(funding_resp[v], "fundingRate")

\* The best price of one side of adapter v's order-book response.
BookSide(v, side) ==
    IF v = "hyperliquid"
    THEN GetKeyR(GetKey(book_resp[v], "levels"), side)
    ELSE GetKey(book_resp[v], side)

BestPrice(v, side) == FloatR(GetIdxR(GetIdxR(BookSide(v, side), 0), 0))

\* The venue's funding-rate data is there and is a number.
FundingValid(v) == FloatR(FundingField(v)).exc = "none"

\* The price can be determined: both sides have a numeric best level.
PriceKnown(v) == BestPrice(v, "bids").exc = "none" /\ BestPrice(v, "asks").exc = "none"

\* The order-book request failed, the price field is missing or a side is empty.
PriceMissing(v) ==
    \/ ~Truthy(book_resp[v])
    \/ \E side \in {"bids", "asks"} :
          \/ BookSide(v, side).exc = "KeyError"
          \/ /\ BookSide(v, side).exc = "none"
             /\ Tag(BookSide(v, side).val) = "list"
             /\ Len(BookSide(v, side).val[2]) = 0

\* The payload is an object that lacks the funding-rate field.
FundingFieldAbsent(v) ==
    /\ Tag(funding_resp[v]) = "dict"
    /\ FundingField(v).exc = "KeyError"

\* str.upper on the symbols of the model.
Upper(symbol) ==
    CASE symbol = "eth" -> "ETH"
      [] OTHER -> symbol

-----------------------------------------------------------------------------
(* C1.  A failed adapter is fatal to the run.                              *)

\* C1: when fetch_hyperliquid or fetch_lighter has failed (it returned the
\* failure value, or an exception left it), estimate_arbitrage is never
\* invoked, nothing is written to stdout, and the run, once over, has written
\* a diagnostic to stderr and has exit status 1.
C1_FailureIsFatal ==
    (\E v \in Venues : Failed(v) \/ call[v] = "raised") =>
        /\ estimate_calls = 0
        /\ stdout = <<>>
        /\ pc = "done" =>
              /\ exit_code = Some(1)
              /\ Has(stderr, "Could not retrieve market data") \/ Has(stderr, "Traceback")

C1_Witness ==
    /\ pc = "done"
    /\ Failed("hyperliquid")
    /\ call["lighter"] = "returned"
    /\ exit_code = Some(1)
    /\ Has(stderr, "Could not retrieve market data")

-----------------------------------------------------------------------------
(* C2.  A run with well-formed answers prints the report and exits 0.      *)

WellFormed(v) == Truthy(funding_resp[v]) /\ FundingValid(v) /\ Truthy(book_resp[v]) /\ PriceKnown(v)

FullReport ==
    /\ Len(Lines("Hyperliquid funding")) > 0
    /\ Len(Lines("Lighter funding")) > 0
    /\ Len(Lines("Funding rate diff")) > 0
    /\ Len(Lines("Avg mid price")) > 0
    /\ Len(Lines("Position size (USD)")) > 0
    /\ Len(Lines("Arbitrage")) + Len(Lines("No arbitrage opportunity")) > 0

\* C2: a run that is over, in which every request made was answered with a
\* well-formed payload, has printed the full report and has exit status 0.
C2_WellFormedRunReports ==
    ( /\ pc = "done"
      /\ \A v \in Venues : call[v] # "idle" => (returns[v] = 2 /\ WellFormed(v)) )
    => (exit_code = Some(0) /\ FullReport)

-----------------------------------------------------------------------------
(* C3.  The price is optional.                                             *)

\* C3: an adapter whose funding-rate data is valid and whose price cannot be
\* determined returns a snapshot without mid_price; it does not fail.
C3_PriceIsOptional ==
    \A v \in Venues :
        (Over(v) /\ returns[v] = 2 /\ Truthy(funding_resp[v]) /\ FundingValid(v) /\ PriceMissing(v))
        => /\ call[v] = "returned"
           /\ ~IsNone(result[v])
           /\ IsNone(result[v][1].mid_price)

-----------------------------------------------------------------------------
(* C4.  A payload without the funding rate is a diagnosed failure.         *)

\* C4: an adapter whose funding payload lacks the funding-rate field returns
\* the failure value and has written a diagnostic; no exception leaves it.
C4_MissingFundingIsDiagnosedFailure ==
    \A v \in Venues :
        (Over(v) /\ returns[v] = 2 /\ FundingFieldAbsent(v))
        => (Failed(v) /\ diag[v] # <<>>)

-----------------------------------------------------------------------------
(* C5.  No payload makes an adapter raise.                                 *)

\* C5: whatever the two payloads handed to an adapter, its call ends in a
\* snapshot or in the failure value, never in an exception.
C5_NoUncaughtException ==
    \A v \in Venues : returns[v] = 2 => call[v] # "raised"

-----------------------------------------------------------------------------
(* C6.  The average mid price.                                             *)

Snapshot(v) == result[v][1]

\* C6: estimate_arbitrage completes; with two prices the average printed is
\* their mean, with one price it is that price, with none it is "unavailable".
C6_AverageMid ==
    (pc = "done" /\ estimate_calls = 1) =>
        LET a == Mid(Snapshot("hyperliquid"))
            b == Mid(Snapshot("lighter"))
            avg == Lines("Avg mid price")
        IN  /\ exit_code = Some(0)
            /\ Len(avg) > 0
            /\ \A i \in 1..Len(avg) :
                  CASE ~IsNone(a) /\ ~IsNone(b) ->
                          avg[i].text = "" /\ 2 * avg[i].num = (a[1] + b[1]) * avg[i].den
                    [] ~IsNone(a) /\ IsNone(b) ->
                          avg[i].text = "" /\ avg[i].num = a[1] * avg[i].den
                    [] IsNone(a) /\ ~IsNone(b) ->
                          avg[i].text = "" /\ avg[i].num = b[1] * avg[i].den
                    [] OTHER -> avg[i].text = "unavailable"

-----------------------------------------------------------------------------
(* C7.  The spread and the recommendation.                                 *)

\* C7: every call of estimate_arbitrage reports funding_diff = A - B and
\* exactly one outcome: "no opportunity" iff |funding_diff| < 1e-6, otherwise
\* short Hyperliquid when the difference is positive, long when negative.
C7_Recommendation ==
    (pc = "done" /\ estimate_calls = 1) =>
        LET d == Snapshot("hyperliquid").funding_rate - Snapshot("lighter").funding_rate
            diff == Lines("Funding rate diff")
            none == Lines("No arbitrage opportunity")
            arb == Lines("Arbitrage")
        IN  /\ Len(diff) = 1 /\ diff[1].num = d * diff[1].den
            /\ Len(none) + Len(arb) = 1
            /\ Len(none) = 1 <=> Abs(d) < NoOpportunityThreshold
            /\ Len(arb) = 1 =>
                  arb[1].text = IF d > 0 THEN "Short Hyperliquid / Long Lighter"
                                ELSE "Long Hyperliquid / Short Lighter"

-----------------------------------------------------------------------------
(* C8.  The symbol is normalized to upper case.                            *)

\* C8: every request an adapter issues carries the market symbol in upper
\* case, so that "eth" and "ETH" issue the same requests.
C8_SymbolIsUpperCased ==
    \A i \in 1..Len(requests) : requests[i].symbol = Upper(market)

-----------------------------------------------------------------------------
(* C9.  No request is attempted twice.                                     *)

\* C9: no request appears twice among the requests handed to urlopen, and each
\* transport call that has returned accounts for exactly one of them.
C9_SingleAttempt ==
    /\ \A i, j \in 1..Len(requests) : i # j => requests[i] # requests[j]
    /\ pc # "done" => Len(requests) = returns["hyperliquid"] + returns["lighter"]

C9_Witness ==
    /\ pc = "done"
    /\ Len(requests) = 4
    /\ Has(diag["hyperliquid"], "Request failed")
    /\ Has(diag["lighter"], "Request failed")

-----------------------------------------------------------------------------
(* C10.  Nothing short-circuits on failure.                                *)

Sent(type) == \E i \in 1..Len(requests) : requests[i].type = type

\* C10: once fetch_hyperliquid has returned, also with the failure value,
\* fetch_lighter is invoked next; main's check of the two results happens
\* only when both adapters have returned; and an adapter whose first request
\* has returned, also with a failure, issues its second request.
C10_NoShortCircuit ==
    /\ (call["hyperliquid"] = "returned" /\ pc = "done") => call["lighter"] # "idle"
    /\ (Has(stderr, "Could not retrieve market data") \/ estimate_calls > 0)
          => \A v \in Venues : call[v] = "returned"
    /\ (returns["hyperliquid"] >= 1 /\ pc # "fetch_hyperliquid_book") => Sent("l2Book")
    /\ (returns["lighter"] >= 1 /\ pc # "fetch_lighter_book") => Sent("orderbook")
    /\ \A i, j \in 1..Len(requests) :
          (requests[i].method = "POST" /\ requests[j].method = "GET") => i < j

C10_Witness ==
    /\ pc = "done"
    /\ funding_resp["hyperliquid"] = JNull
    /\ Has(diag["hyperliquid"], "Request failed")
    /\ Truthy(book_resp["hyperliquid"])
    /\ Failed("hyperliquid")
    /\ funding_resp["lighter"] = JNull
    /\ Truthy(book_resp["lighter"])
    /\ Failed("lighter")

====
